---------------------------- MODULE Spec2Model ----------------------------
(***************************************************************************)
(* A model of src/js/internal/webidl.js: the WebIDL value converters       *)
(* (convertToInt, DOMString, the enum, sequence and interface converter    *)
(* factories) and the helpers they are built from.                         *)
(*                                                                         *)
(* ECMAScript Numbers are modelled as fixed-point values: a finite Number  *)
(* is the integer n of the record [k |-> "fin", n |-> n] and stands for    *)
(* n / Scale; -0, NaN, +Infinity and -Infinity are the kinds "nz", "nan",  *)
(* "inf" and "ninf".  Strings are sequences of one-character strings, so   *)
(* that String(V), ToNumber of a String and the error messages are         *)
(* computed and not postulated.                                            *)
(*                                                                         *)
(* TLC's integers are 32 bits wide, so the model covers bitLength 8 and    *)
(* 16; pow2(31), pow2(32) and the 2^53 bounds of bitLength 64 are outside  *)
(* what it can represent.                                                  *)
(***************************************************************************)
EXTENDS Integers, Sequences, FiniteSets, TLC

(***************************************************************************)
(* Bounds of the model.                                                    *)
(***************************************************************************)
\* Binary digits after the point: Numbers are multiples of 1 / 2^FracBits.
FracBits == 2
\* Number inputs lie within MaxDelta / Scale of a point of interest.
MaxDelta == 14
\* The longest run of next() results an iterator is given.
MaxIter == 3
\* How many labels the caller may push onto the array it made the enum of.
MaxPush == 1

Scale == 2 ^ FracBits

(***************************************************************************)
(* ECMAScript Numbers.                                                     *)
(***************************************************************************)
Fin(n) == [k |-> "fin", n |-> n]
NaN == [k |-> "nan", n |-> 0]
PosInf == [k |-> "inf", n |-> 0]
NegInf == [k |-> "ninf", n |-> 0]
NegZero == [k |-> "nz", n |-> 0]
Int2Num(i) == Fin(i * Scale)

AbsInt(i) == IF i < 0 THEN -i ELSE i

\* The real a finite Number (or a zero) stands for, times Scale.
NumVal(x) == IF x.k = "fin" THEN x.n ELSE 0
IsFinite(x) == x.k \in {"fin", "nz"}
\* x === 0
IsZero(x) == x.k = "nz" \/ (x.k = "fin" /\ x.n = 0)
\* The sign bit of x.
SignBit(x) == x.k \in {"nz", "ninf"} \/ (x.k = "fin" /\ x.n < 0)

NumberIsNaN(x) == x.k = "nan"

\* x === y on Numbers.
StrictEq(x, y) ==
  /\ x.k # "nan"
  /\ y.k # "nan"
  /\ \/ IsZero(x) /\ IsZero(y)
     \/ x = y

\* x < y on Numbers.
NumLt(x, y) ==
  /\ x.k # "nan"
  /\ y.k # "nan"
  /\ \/ x.k = "ninf" /\ y.k # "ninf"
     \/ y.k = "inf" /\ x.k # "inf"
     \/ IsFinite(x) /\ IsFinite(y) /\ NumVal(x) < NumVal(y)

\* x > y and x >= y on Numbers.
NumGt(x, y) == NumLt(y, x)
NumGe(x, y) == x.k # "nan" /\ y.k # "nan" /\ ~NumLt(x, y)

\* -x
NumNeg(x) ==
  CASE x.k = "nan" -> NaN
    [] x.k = "inf" -> NegInf
    [] x.k = "ninf" -> PosInf
    [] x.k = "nz" -> Fin(0)
    [] OTHER -> IF x.n = 0 THEN NegZero ELSE Fin(-x.n)

\* x + y
NumAdd(x, y) ==
  CASE x.k = "nan" \/ y.k = "nan" -> NaN
    [] x.k = "inf" -> IF y.k = "ninf" THEN NaN ELSE PosInf
    [] x.k = "ninf" -> IF y.k = "inf" THEN NaN ELSE NegInf
    [] y.k \in {"inf", "ninf"} -> y
    [] x.k = "nz" /\ y.k = "nz" -> NegZero
    [] OTHER -> Fin(NumVal(x) + NumVal(y))

\* x - y
NumSub(x, y) == NumAdd(x, NumNeg(y))

\* x % y: the remainder of the truncating division, with the sign of x.
NumRem(x, y) ==
  CASE x.k = "nan" \/ y.k = "nan" -> NaN
    [] x.k \in {"inf", "ninf"} -> NaN
    [] IsZero(y) -> NaN
    [] y.k \in {"inf", "ninf"} -> x
    [] x.k = "nz" -> NegZero
    [] OTHER ->
         LET r == AbsInt(x.n) % AbsInt(y.n)
         IN  IF x.n >= 0 THEN Fin(r)
             ELSE IF r = 0 THEN NegZero ELSE Fin(-r)

MathAbs(x) ==
  CASE x.k = "nz" -> Fin(0)
    [] x.k = "ninf" -> PosInf
    [] x.k = "fin" -> Fin(AbsInt(x.n))
    [] OTHER -> x

MathSign(x) ==
  CASE x.k = "nan" -> NaN
    [] IsZero(x) -> x
    [] SignBit(x) -> Int2Num(-1)
    [] OTHER -> Int2Num(1)

MathTrunc(x) ==
  IF x.k # "fin" THEN x
  ELSE IF x.n >= 0 THEN Fin((x.n \div Scale) * Scale)
  ELSE LET m == ((-x.n) \div Scale) * Scale
       IN  IF m = 0 THEN NegZero ELSE Fin(-m)

MathMax(x, y) ==
  CASE x.k = "nan" \/ y.k = "nan" -> NaN
    [] NumLt(x, y) -> y
    [] NumLt(y, x) -> x
    [] IsZero(x) /\ IsZero(y) -> IF x.k = "nz" /\ y.k = "nz" THEN NegZero ELSE Fin(0)
    [] OTHER -> x

MathMin(x, y) ==
  CASE x.k = "nan" \/ y.k = "nan" -> NaN
    [] NumLt(x, y) -> x
    [] NumLt(y, x) -> y
    [] IsZero(x) /\ IsZero(y) -> IF x.k = "nz" \/ y.k = "nz" THEN NegZero ELSE Fin(0)
    [] OTHER -> x


(***************************************************************************)
(* Strings, as sequences of characters.                                    *)
(***************************************************************************)
DigitChars == <<"0", "1", "2", "3", "4", "5", "6", "7", "8", "9">>
IsDigit(c) == \E d \in 1..10 : DigitChars[d] = c
DigitVal(c) == (CHOOSE d \in 1..10 : DigitChars[d] = c) - 1

RECURSIVE NatToStr(_)
NatToStr(i) ==
  IF i < 10 THEN <<DigitChars[i + 1]>>
  ELSE NatToStr(i \div 10) \o <<DigitChars[(i % 10) + 1]>>

\* The decimal digits of f / Scale, 0 < f < Scale.
RECURSIVE FracToStr(_)
FracToStr(f) ==
  IF f = 0 THEN <<>>
  ELSE <<DigitChars[((f * 10) \div Scale) + 1]>> \o FracToStr((f * 10) % Scale)

RECURSIVE StrToNat(_)
StrToNat(ds) ==
  IF ds = <<>> THEN 0
  ELSE StrToNat(SubSeq(ds, 1, Len(ds) - 1)) * 10 + DigitVal(ds[Len(ds)])

RECURSIVE Pow10(_)
Pow10(e) == IF e = 0 THEN 1 ELSE 10 * Pow10(e - 1)

\* Number::toString(x), radix 10 (no exponent form: |x| < 1e21 here).
NumberToString(x) ==
  CASE x.k = "nan" -> <<"N", "a", "N">>
    [] x.k = "inf" -> <<"I", "n", "f", "i", "n", "i", "t", "y">>
    [] x.k = "ninf" -> <<"-", "I", "n", "f", "i", "n", "i", "t", "y">>
    [] x.k = "nz" -> <<"0">>
    [] OTHER ->
         LET a == AbsInt(x.n)
             whole == NatToStr(a \div Scale)
             frac == FracToStr(a % Scale)
         IN  (IF x.n < 0 THEN <<"-">> ELSE <<>>)
               \o whole
               \o (IF frac = <<>> THEN <<>> ELSE <<".">> \o frac)

RECURSIVE TrimLeft(_)
TrimLeft(s) == IF s # <<>> /\ Head(s) = " " THEN TrimLeft(Tail(s)) ELSE s

RECURSIVE TrimRight(_)
TrimRight(s) ==
  IF s # <<>> /\ s[Len(s)] = " " THEN TrimRight(SubSeq(s, 1, Len(s) - 1)) ELSE s

\* StringToNumber(s): StrWhiteSpace is trimmed, then an optional sign and
\* "Infinity" or decimal digits with an optional point; anything else is NaN.
\* (Exponents and 0x/0o/0b literals are not in the model's Strings.)
StringToNumber(s) ==
  LET t == TrimRight(TrimLeft(s))
      signed == t # <<>> /\ Head(t) \in {"+", "-"}
      neg == t # <<>> /\ Head(t) = "-"
      body == IF signed THEN Tail(t) ELSE t
      dots == {i \in 1..Len(body) : body[i] = "."}
      dot == IF dots = {} THEN Len(body) + 1 ELSE CHOOSE i \in dots : TRUE
      whole == SubSeq(body, 1, dot - 1)
      frac == SubSeq(body, dot + 1, Len(body))
      wellFormed ==
        /\ Cardinality(dots) <= 1
        /\ \A i \in 1..Len(body) : body[i] = "." \/ IsDigit(body[i])
        /\ Len(whole) + Len(frac) > 0
      mag == StrToNat(whole) * Scale + (StrToNat(frac) * Scale) \div Pow10(Len(frac))
  IN  IF t = <<>> THEN Fin(0)
      ELSE IF body = <<"I", "n", "f", "i", "n", "i", "t", "y">>
        THEN IF neg THEN NegInf ELSE PosInf
      ELSE IF ~wellFormed THEN NaN
      ELSE IF neg THEN (IF mag = 0 THEN NegZero ELSE Fin(-mag))
      ELSE Fin(mag)

(***************************************************************************)
(* ECMAScript values.  t is the value's typeof, except that null has the   *)
(* tag "null".  A Number is [k, n]; a String, a Symbol's description and   *)
(* what an object's toString() returns are s; k of an object is its        *)
(* prototype; n of a Boolean is 0 or 1, n of a BigInt its integer.         *)
(***************************************************************************)
Val(t, k, n, s) == [t |-> t, k |-> k, n |-> n, s |-> s]
Null == Val("null", "", 0, <<>>)
Undefined == Val("undefined", "", 0, <<>>)
BoolV(b) == Val("boolean", "", IF b THEN 1 ELSE 0, <<>>)
NumV(x) == Val("number", x.k, x.n, <<>>)
StrV(s) == Val("string", "", 0, s)
SymV(desc) == Val("symbol", "", 0, desc)
BigV(i) == Val("bigint", "", i, <<>>)
ObjV(proto, str) == Val("object", proto, 0, str)
FunV(str) == Val("function", "Function", 0, str)

NumOf(V) == [k |-> V.k, n |-> V.n]

ObjectToString == <<"[", "o", "b", "j", "e", "c", "t", " ", "O", "b", "j", "e", "c", "t", "]">>
BlobToString == <<"[", "o", "b", "j", "e", "c", "t", " ", "B", "l", "o", "b", "]">>
PlainObject == ObjV("Object", ObjectToString)
EmptyArray == ObjV("Array", <<>>)
BlobObject == ObjV("Blob", BlobToString)
FileObject == ObjV("File", BlobToString)
SomeFunction == FunV(<<"(", ")", "=", ">", "1">>)

\* The prototype chain of an object whose prototype is proto.
ProtoChain(proto) ==
  CASE proto = "Object" -> {"Object"}
    [] proto = "File" -> {"File", "Blob", "Object"}
    [] OTHER -> {proto, "Object"}

(***************************************************************************)
(* Completions: a call returns a value or throws an error.                 *)
(***************************************************************************)
NoError == [code |-> "", msg |-> <<>>, args |-> <<>>]
Return(v) == [kind |-> "return", val |-> v, err |-> NoError]
Throw(e) == [kind |-> "throw", val |-> Undefined, err |-> e]
\* A TypeError the language itself throws: it has no code property.
NativeTypeError == [code |-> "none", msg |-> <<>>, args |-> <<>>]

\* ToNumber as Number(value) would do it: a BigInt converts.  (A variant the
\* properties must tell from ToNumber.)
ToNumber_NumberCall(V) ==
  CASE V.t = "null" -> Return(Fin(0))
    [] V.t = "undefined" -> Return(NaN)
    [] V.t = "boolean" -> Return(Int2Num(V.n))
    [] V.t = "number" -> Return(NumOf(V))
    [] V.t = "string" -> Return(StringToNumber(V.s))
    [] V.t = "symbol" -> Throw(NativeTypeError)
    [] V.t = "bigint" -> Return(Int2Num(V.n))
    [] OTHER -> Return(StringToNumber(V.s))

\* ToNumber(V), the unary plus of line 114.
ToNumber(V) ==
  CASE V.t = "null" -> Return(Fin(0))
    [] V.t = "undefined" -> Return(NaN)
    [] V.t = "boolean" -> Return(Int2Num(V.n))
    [] V.t = "number" -> Return(NumOf(V))
    [] V.t = "string" -> Return(StringToNumber(V.s))
    [] V.t \in {"symbol", "bigint"} -> Throw(NativeTypeError)
    [] OTHER -> Return(StringToNumber(V.s))

\* String(V), the function call: a Symbol gives its descriptive string.
String(V) ==
  CASE V.t = "null" -> <<"n", "u", "l", "l">>
    [] V.t = "undefined" -> <<"u", "n", "d", "e", "f", "i", "n", "e", "d">>
    [] V.t = "boolean" ->
         IF V.n = 1 THEN <<"t", "r", "u", "e">> ELSE <<"f", "a", "l", "s", "e">>
    [] V.t = "number" -> NumberToString(NumOf(V))
    [] V.t = "symbol" -> <<"S", "y", "m", "b", "o", "l", "(">> \o V.s \o <<")">>
    [] V.t = "bigint" -> (IF V.n < 0 THEN <<"-">> ELSE <<>>) \o NatToStr(AbsInt(V.n))
    [] OTHER -> V.s

(***************************************************************************)
(* Options records.  An option that may be missing is [def, s]: def says   *)
(* whether the property is there, s is its value.                          *)
(***************************************************************************)
Some(s) == [def |-> TRUE, s |-> s]
NoString == [def |-> FALSE, s |-> <<>>]
NoCode == [def |-> FALSE, s |-> ""]

Options(signed, enforceRange, clamp, context, prefix, code) ==
  [signed |-> signed, enforceRange |-> enforceRange, clamp |-> clamp,
   context |-> context, prefix |-> prefix, code |-> code]

kEmptyObject == Options(FALSE, FALSE, FALSE, NoString, NoString, NoCode)

\* `${x}` of an option: a missing one prints as "undefined".
TemplateString(opt) ==
  IF opt.def THEN opt.s ELSE <<"u", "n", "d", "e", "f", "i", "n", "e", "d">>

(***************************************************************************)
(* internal/errors: the error classes webidl.js constructs.  Their code is *)
(* fixed by the class; the arguments are kept as they were given.          *)
(***************************************************************************)
ERR_INVALID_ARG_VALUE(name, value) ==
  [code |-> "ERR_INVALID_ARG_VALUE", msg |-> <<>>, args |-> <<name, value>>]
ERR_INVALID_ARG_TYPE(name, expected, actual) ==
  [code |-> "ERR_INVALID_ARG_TYPE", msg |-> <<>>, args |-> <<name, expected, actual>>]

(***************************************************************************)
(* webidl.js                                                               *)
(***************************************************************************)
any(V) == Return(V)

\* integerPart as Math.floor.  (A variant the properties must tell from
\* integerPart.)
integerPart_Floor(x) ==
  IF x.k # "fin" THEN x
  ELSE IF x.n >= 0 THEN Fin((x.n \div Scale) * Scale)
  ELSE Fin(-((((-x.n) + Scale - 1) \div Scale) * Scale))

integerPart(x) == MathTrunc(x)

\* evenRound with the comparison of the remainder turned round.  (A variant
\* the properties must tell from evenRound.)
evenRound_Inverted(x) ==
  LET i == NumAdd(integerPart(x), Fin(0))
      reminder == MathAbs(NumRem(x, Int2Num(1)))
      sign == MathSign(i)
      half == Fin(Scale \div 2)
  IN  IF StrictEq(reminder, half)
        THEN IF StrictEq(NumRem(i, Int2Num(2)), Fin(0)) THEN i ELSE NumAdd(i, sign)
        ELSE LET r == IF NumGt(reminder, half) THEN i ELSE NumAdd(i, sign)
             IN  IF StrictEq(r, Fin(0)) THEN Fin(0) ELSE r

evenRound(x) ==
  LET i == NumAdd(integerPart(x), Fin(0))
      reminder == MathAbs(NumRem(x, Int2Num(1)))
      sign == MathSign(i)
      half == Fin(Scale \div 2)
  IN  IF StrictEq(reminder, half)
        THEN IF StrictEq(NumRem(i, Int2Num(2)), Fin(0)) THEN i ELSE NumAdd(i, sign)
        ELSE LET r == IF NumLt(reminder, half) THEN i ELSE NumAdd(i, sign)
             IN  IF StrictEq(r, Fin(0)) THEN Fin(0) ELSE r

\* 1 << exponent for 0 <= exponent < 31.  (The branches for 31, 32 and
\* above return numbers TLC's integers cannot hold; the model never asks.)
pow2(exponent) == Int2Num(2 ^ exponent)

modulo(x, y) ==
  LET r == NumRem(x, y)
  IN  IF StrictEq(r, Fin(0)) THEN Fin(0) ELSE r

lowerBoundOf(bitLength, signed) ==
  IF ~signed THEN Fin(0) ELSE NumNeg(pow2(bitLength - 1))

upperBoundOf(bitLength, signed) ==
  IF ~signed THEN NumSub(pow2(bitLength), Int2Num(1))
  ELSE NumSub(pow2(bitLength - 1), Int2Num(1))

convertToInt(name, value, bitLength, options) ==
  LET signed == options.signed
      enforceRange == options.enforceRange
      clamp == options.clamp
      lowerBound == lowerBoundOf(bitLength, signed)
      upperBound == upperBoundOf(bitLength, signed)
      coerced == ToNumber(value)
  IN  IF coerced.kind = "throw" THEN coerced
      ELSE
        LET x == IF IsZero(coerced.val) THEN Fin(0) ELSE coerced.val
        IN  IF enforceRange THEN
              IF NumberIsNaN(x) \/ x = PosInf \/ x = NegInf
                THEN Throw(ERR_INVALID_ARG_VALUE(name, NumV(x)))
              ELSE
                LET xi == integerPart(x)
                IN  IF NumLt(xi, lowerBound) \/ NumGt(xi, upperBound)
                      THEN Throw(ERR_INVALID_ARG_VALUE(name, NumV(xi)))
                      ELSE Return(NumV(xi))
            ELSE IF clamp /\ ~NumberIsNaN(x) THEN
              Return(NumV(evenRound(MathMin(MathMax(x, lowerBound), upperBound))))
            ELSE IF NumberIsNaN(x) \/ StrictEq(x, Fin(0)) \/ x = PosInf \/ x = NegInf THEN
              Return(NumV(Fin(0)))
            ELSE
              LET xm == modulo(integerPart(x), pow2(bitLength))
              IN  IF signed /\ NumGe(xm, pow2(bitLength - 1))
                    THEN Return(NumV(NumSub(xm, pow2(bitLength))))
                    ELSE Return(NumV(xm))

DOMString(V) ==
  IF V.t = "symbol" THEN Throw(ERR_INVALID_ARG_VALUE(<<"v", "a", "l", "u", "e">>, V))
  ELSE Return(StrV(String(V)))

codedTypeError(message, errorProperties) ==
  [code |-> errorProperties.code, msg |-> message, args |-> <<>>]

makeException(message, opts) ==
  LET prefix == IF opts.prefix.def /\ opts.prefix.s # <<>>
                  THEN opts.prefix.s \o <<":", " ">> ELSE <<>>
      context == IF opts.context.def /\ Len(opts.context.s) = 0 THEN <<>>
                 ELSE (IF opts.context.def THEN opts.context.s
                       ELSE <<"V", "a", "l", "u", "e">>) \o <<" ">>
  IN  codedTypeError(prefix \o context \o message,
                     [code |-> IF opts.code.def /\ opts.code.s # ""
                                 THEN opts.code.s ELSE "ERR_INVALID_ARG_TYPE"])

EnumMessage(S, name) ==
  <<"v", "a", "l", "u", "e", " ", "'">> \o S
    \o <<"'", " ", "i", "s", " ", "n", "o", "t", " ", "a", " ", "v", "a", "l", "i", "d", " ",
         "e", "n", "u", "m", " ", "v", "a", "l", "u", "e", " ", "o", "f", " ",
         "t", "y", "p", "e", " ">>
    \o name \o <<".">>

\* The enum converter with code written before the spread of opts, so that
\* the caller's code wins.  (A variant the properties must tell from
\* enumConverter.)
enumConverter_CallerCode(name, E, V, opts) ==
  LET S == String(V)
  IN  IF S \notin E
        THEN Throw(makeException(EnumMessage(S, name),
                                 IF opts.code.def THEN opts
                                 ELSE [opts EXCEPT !.code = Some("ERR_INVALID_ARG_VALUE")]))
        ELSE Return(StrV(S))

\* The converter createEnumConverter(name, values) returns; E is its set.
enumConverter(name, E, V, opts) ==
  LET S == String(V)
  IN  IF S \notin E
        THEN Throw(makeException(EnumMessage(S, name),
                                 [opts EXCEPT !.code = Some("ERR_INVALID_ARG_VALUE")]))
        ELSE Return(StrV(S))

type(V) ==
  IF V.t = "null" THEN "Null"
  ELSE CASE V.t = "undefined" -> "Undefined"
         [] V.t = "boolean" -> "Boolean"
         [] V.t = "number" -> "Number"
         [] V.t = "string" -> "String"
         [] V.t = "symbol" -> "Symbol"
         [] V.t = "bigint" -> "BigInt"
         [] OTHER -> "Object"

SequenceMessage ==
  <<"c", "a", "n", " ", "n", "o", "t", " ", "b", "e", " ", "c", "o", "n", "v", "e", "r", "t",
    "e", "d", " ", "t", "o", " ", "s", "e", "q", "u", "e", "n", "c", "e", ".">>

\* The converter createInterfaceConverter(name, I) returns.
interfaceConverter(name, I, V, opts) ==
  IF V.t \in {"object", "function"} /\ I \in ProtoChain(V.k) THEN Return(V)
  ELSE Throw(ERR_INVALID_ARG_TYPE(
               IF opts.context.def THEN opts.context.s ELSE <<"v", "a", "l", "u", "e">>,
               name, V))

(***************************************************************************)
(* The inputs the callers of the model draw from.                          *)
(***************************************************************************)
BitLengths == {8, 16}

\* 0 and, for each bit length, +-2^(b-1), +-2^b and +-(2^b + 2^(b-1)).
InterestingIntegers ==
  {0} \cup UNION {{h, -h, 2 * h, -(2 * h), 3 * h, -(3 * h)} : h \in {2 ^ (b - 1) : b \in BitLengths}}

NumberInputs ==
  {NumV(Fin(p * Scale + d)) : p \in InterestingIntegers, d \in (-MaxDelta)..MaxDelta}
    \cup {NumV(NaN), NumV(PosInf), NumV(NegInf), NumV(NegZero)}

OtherInputs ==
  {Null, Undefined, BoolV(TRUE), BoolV(FALSE),
   StrV(<<>>), StrV(<<"2", ".", "5">>), StrV(<<" ", "3", "0", "0">>), StrV(<<"a", "b", "c">>),
   StrV(<<"-", "I", "n", "f", "i", "n", "i", "t", "y">>),
   SymV(<<"s">>), BigV(1), PlainObject, EmptyArray, SomeFunction}

IntInputs == NumberInputs \cup OtherInputs

CustomCode == Some("ERR_CUSTOM")
Ctx == Some(<<"c", "t", "x">>)

IntOptions ==
  {Options(sg, er, cl, NoString, NoString, code) :
     sg \in BOOLEAN, er \in BOOLEAN, cl \in BOOLEAN, code \in {NoCode, CustomCode}}

\* Options of the converters that build their errors from the options.
ErrOptions ==
  {kEmptyObject,
   Options(FALSE, FALSE, FALSE, Ctx, NoString, CustomCode),
   Options(FALSE, FALSE, FALSE, Some(<<>>), Some(<<"p">>), Some(""))}

ScalarInputs ==
  {Null, Undefined, BoolV(TRUE), NumV(Int2Num(1)), NumV(Fin(Scale + Scale \div 2)),
   NumV(NegZero), StrV(<<"a">>), StrV(<<"c">>), SymV(<<"a">>), BigV(1), PlainObject}

IntName == <<"x">>
EnumName == <<"T">>
EnumValueLists == {<<<<"a">>, <<"b">>>>, <<<<"1">>, <<"n", "u", "l", "l">>, <<"1", ".", "5">>>>}
PushLabels == {<<"c">>, <<"t", "r", "u", "e">>}

InterfaceName(I) == IF I = "Blob" THEN <<"B", "l", "o", "b">> ELSE <<"F", "i", "l", "e">>
Interfaces == {"Blob", "File"}
InterfaceInputs == {Null, Undefined, StrV(<<"a">>), PlainObject, BlobObject, FileObject, SomeFunction}

\* What V[Symbol.iterator]() gives, by the object's prototype: "Object" has
\* no such method, "IterUndefined" and "IterNull" return undefined and null,
\* "IterNoNext" returns an object without next(), "Iterable" an iterator.
IterObject(kind) == ObjV(kind, ObjectToString)
SequenceInputs ==
  {Null, Undefined, NumV(Int2Num(1)), StrV(<<"a">>), PlainObject, SomeFunction,
   IterObject("IterUndefined"), IterObject("IterNull"), IterObject("IterNoNext"),
   IterObject("Iterable")}

\* What a call of next() can return.
Result(t, done, hasValue, value) ==
  [t |-> t, done |-> done, hasValue |-> hasValue, value |-> value]
ResUndefined == Result("undefined", "none", FALSE, Undefined)
ResNull == Result("null", "none", FALSE, Undefined)
ResNumber == Result("number", "none", FALSE, Undefined)
ResDone == Result("object", "true", TRUE, Undefined)
ResYield(v) == Result("object", "false", TRUE, v)
ResEmptyObject == Result("object", "none", FALSE, Undefined)
ResNoDone(v) == Result("object", "none", TRUE, v)
\* done is 1: truthy, and not === true.
ResTruthyDone == Result("object", "truthy", TRUE, Undefined)

ElementValues == {StrV(<<"a">>), StrV(<<"c">>), SymV(<<"a">>)}
NextResults ==
  {ResDone, ResUndefined, ResNull, ResNumber, ResEmptyObject, ResNoDone(StrV(<<"a">>)),
   ResTruthyDone}
    \cup {ResYield(v) : v \in ElementValues}

\* The element converters the callers pass to createSequenceConverter.
ElementConverters == {"any", "DOMString", "enum"}
ElementEnum == {<<"a">>, <<"b">>}
elementConverter(conv, V, opts) ==
  CASE conv = "any" -> any(V)
    [] conv = "DOMString" -> DOMString(V)
    [] OTHER -> enumConverter(EnumName, ElementEnum, V, opts)

(***************************************************************************)
(* The state: one converter is followed through the calls made of it.      *)
(***************************************************************************)
VARIABLES
  under,      \* the converter the behaviour is about
  pc,         \* "idle", "loop" (inside the sequence converter's while), "called", "again"
  call,       \* the arguments of the call in progress or just made
  out,        \* how that call completed
  out2,       \* how convertToInt completed on its own result
  values,     \* the array createEnumConverter was given; its caller still owns it
  E,          \* the enum converter's SafeSet
  made,       \* whether createEnumConverter has run
  prev,       \* the enum converter's previous call and its completion
  iter,       \* what V[Symbol.iterator]() returned
  array,      \* the sequence converter's array
  results,    \* the results next() has returned so far
  convCalls   \* the calls made of the element converter, with their completions

vars == <<under, pc, call, out, out2, values, E, made, prev, iter, array, results, convCalls>>

NoOutcome == [kind |-> "none", val |-> Undefined, err |-> NoError]
Call(V, opts, bitLength, conv) == [V |-> V, opts |-> opts, bitLength |-> bitLength, conv |-> conv]
NoCall == Call(Undefined, kEmptyObject, 0, "")
NoPrev == [def |-> FALSE, V |-> Undefined, opts |-> kEmptyObject, out |-> NoOutcome]

Converters == {"convertToInt", "DOMString", "enum", "sequence", "interface"}

Init ==
  /\ under \in Converters
  /\ pc = "idle"
  /\ call = NoCall
  /\ out = NoOutcome
  /\ out2 = NoOutcome
  /\ values = <<>>
  /\ E = {}
  /\ made = FALSE
  /\ prev = NoPrev
  /\ iter = "none"
  /\ array = <<>>
  /\ results = <<>>
  /\ convCalls = <<>>

enumVars == <<values, E, made, prev>>
seqVars == <<iter, array, results, convCalls>>

(***************************************************************************)
(* The calls.                                                              *)
(***************************************************************************)
\* convertToInt(name, value, bitLength, options)
CallConvertToInt ==
  /\ under = "convertToInt"
  /\ pc = "idle"
  /\ \E value \in IntInputs, bitLength \in BitLengths, options \in IntOptions :
       /\ call' = Call(value, options, bitLength, "")
       /\ out' = convertToInt(IntName, value, bitLength, options)
  /\ pc' = "called"
  /\ UNCHANGED <<under, out2, enumVars, seqVars>>

\* convertToInt again, with the same options, on the value it returned.
ConvertAgain ==
  /\ under = "convertToInt"
  /\ pc = "called"
  /\ out.kind = "return"
  /\ out2' = convertToInt(IntName, out.val, call.bitLength, call.opts)
  /\ pc' = "again"
  /\ UNCHANGED <<under, call, out, enumVars, seqVars>>

\* converters.DOMString(V)
CallDOMString ==
  /\ under = "DOMString"
  /\ pc = "idle"
  /\ \E V \in ScalarInputs, opts \in ErrOptions :
       /\ call' = Call(V, opts, 0, "")
       /\ out' = DOMString(V)
  /\ pc' = "called"
  /\ UNCHANGED <<under, out2, enumVars, seqVars>>

\* createEnumConverter(name, values): E is a copy of the values.
CreateEnumConverter ==
  /\ under = "enum"
  /\ pc = "idle"
  /\ ~made
  /\ \E vs \in EnumValueLists :
       /\ values' = vs
       /\ E' = {vs[i] : i \in 1..Len(vs)}
  /\ made' = TRUE
  /\ prev' = NoPrev
  /\ UNCHANGED <<under, pc, call, out, out2, seqVars>>

\* The caller pushes another label onto the array it made the converter of.
PushValue ==
  /\ under = "enum"
  /\ pc = "idle"
  /\ made
  /\ Len(values) < Cardinality(E) + MaxPush
  /\ \E label \in PushLabels : values' = Append(values, label)
  /\ UNCHANGED <<under, pc, call, out, out2, E, made, prev, seqVars>>

\* The enum converter looking V up in the caller's array and not in a set
\* of its own.  (A variant the properties must tell from CallEnumConverter.)
CallEnumConverter_LiveArray ==
  /\ under = "enum"
  /\ pc = "idle"
  /\ made
  /\ \E V \in ScalarInputs, opts \in ErrOptions :
       /\ call' = Call(V, opts, 0, "")
       /\ out' = enumConverter(EnumName, {values[i] : i \in 1..Len(values)}, V, opts)
  /\ pc' = "called"
  /\ UNCHANGED <<under, out2, enumVars, seqVars>>

\* The enum converter, called with (V, opts).
CallEnumConverter ==
  /\ under = "enum"
  /\ pc = "idle"
  /\ made
  /\ \E V \in ScalarInputs, opts \in ErrOptions :
       /\ call' = Call(V, opts, 0, "")
       /\ out' = enumConverter(EnumName, E, V, opts)
  /\ pc' = "called"
  /\ UNCHANGED <<under, out2, enumVars, seqVars>>

\* The converter of createInterfaceConverter(name, I), called with (V, opts).
CallInterfaceConverter ==
  /\ under = "interface"
  /\ pc = "idle"
  /\ \E V \in InterfaceInputs, opts \in ErrOptions, I \in Interfaces :
       /\ call' = Call(V, opts, 0, I)
       /\ out' = interfaceConverter(InterfaceName(I), I, V, opts)
  /\ pc' = "called"
  /\ UNCHANGED <<under, out2, enumVars, seqVars>>

\* The converter of createSequenceConverter(converter), called with
\* (V, opts), up to the while loop.
CallSequenceConverter ==
  /\ under = "sequence"
  /\ pc = "idle"
  /\ \E V \in SequenceInputs, opts \in ErrOptions, conv \in ElementConverters :
       /\ call' = Call(V, opts, 0, conv)
       /\ IF type(V) # "Object" \/ V.k \notin {"IterNull", "IterNoNext", "Iterable"}
            THEN /\ out' = Throw(makeException(SequenceMessage, opts))
                 /\ pc' = "called"
                 /\ iter' = "none"
            ELSE /\ out' = NoOutcome
                 /\ pc' = "loop"
                 /\ iter' = V.k
  /\ array' = <<>>
  /\ results' = <<>>
  /\ convCalls' = <<>>
  /\ UNCHANGED <<under, out2, enumVars>>

\* The options the element at index i is converted with.
ElementOptions(opts, i) ==
  [opts EXCEPT !.context = Some(TemplateString(opts.context) \o <<"[">> \o NatToStr(i) \o <<"]">>)]

\* The while loop's turn counting the elements from 1 in the context.  (A
\* variant the properties must tell from LoopTurn.)
LoopTurn_OneBased(res) ==
  IF res.t = "undefined" THEN
    /\ out' = Throw(makeException(SequenceMessage, call.opts))
    /\ pc' = "called"
    /\ UNCHANGED <<array, convCalls>>
  ELSE IF res.t = "null" THEN
    /\ out' = Throw(NativeTypeError)
    /\ pc' = "called"
    /\ UNCHANGED <<array, convCalls>>
  ELSE IF res.t = "object" /\ res.done = "true" THEN
    /\ out' = Return(array)
    /\ pc' = "called"
    /\ UNCHANGED <<array, convCalls>>
  ELSE
    LET value == IF res.t = "object" /\ res.hasValue THEN res.value ELSE Undefined
        opts == ElementOptions(call.opts, Len(array) + 1)
        val == elementConverter(call.conv, value, opts)
    IN  /\ convCalls' = Append(convCalls, [V |-> value, opts |-> opts, out |-> val])
        /\ IF val.kind = "throw"
             THEN /\ out' = val
                  /\ pc' = "called"
                  /\ UNCHANGED array
             ELSE /\ array' = Append(array, val.val)
                  /\ UNCHANGED <<out, pc>>

\* The while loop's turn leaving out an element that fails to convert and
\* going on.  (A variant the properties must tell from LoopTurn.)
LoopTurn_SkipFailed(res) ==
  IF res.t = "undefined" THEN
    /\ out' = Throw(makeException(SequenceMessage, call.opts))
    /\ pc' = "called"
    /\ UNCHANGED <<array, convCalls>>
  ELSE IF res.t = "null" THEN
    /\ out' = Throw(NativeTypeError)
    /\ pc' = "called"
    /\ UNCHANGED <<array, convCalls>>
  ELSE IF res.t = "object" /\ res.done = "true" THEN
    /\ out' = Return(array)
    /\ pc' = "called"
    /\ UNCHANGED <<array, convCalls>>
  ELSE
    LET value == IF res.t = "object" /\ res.hasValue THEN res.value ELSE Undefined
        opts == ElementOptions(call.opts, Len(array))
        val == elementConverter(call.conv, value, opts)
    IN  /\ convCalls' = Append(convCalls, [V |-> value, opts |-> opts, out |-> val])
        /\ array' = IF val.kind = "throw" THEN array ELSE Append(array, val.val)
        /\ UNCHANGED <<out, pc>>

\* One turn of the while loop, next() returning res.
LoopTurn(res) ==
  IF res.t = "undefined" THEN
    /\ out' = Throw(makeException(SequenceMessage, call.opts))
    /\ pc' = "called"
    /\ UNCHANGED <<array, convCalls>>
  ELSE IF res.t = "null" THEN
    \* res.done of null
    /\ out' = Throw(NativeTypeError)
    /\ pc' = "called"
    /\ UNCHANGED <<array, convCalls>>
  ELSE IF res.t = "object" /\ res.done = "true" THEN
    /\ out' = Return(array)
    /\ pc' = "called"
    /\ UNCHANGED <<array, convCalls>>
  ELSE
    LET value == IF res.t = "object" /\ res.hasValue THEN res.value ELSE Undefined
        opts == ElementOptions(call.opts, Len(array))
        val == elementConverter(call.conv, value, opts)
    IN  /\ convCalls' = Append(convCalls, [V |-> value, opts |-> opts, out |-> val])
        /\ IF val.kind = "throw"
             THEN /\ out' = val
                  /\ pc' = "called"
                  /\ UNCHANGED array
             ELSE /\ array' = Append(array, val.val)
                  /\ UNCHANGED <<out, pc>>

\* A turn of the loop on an iterator: next() is called.
SequenceNext ==
  /\ pc = "loop"
  /\ iter = "Iterable"
  /\ Len(results) < MaxIter
  /\ \E res \in NextResults :
       /\ results' = Append(results, res)
       /\ LoopTurn(res)
  /\ UNCHANGED <<under, call, out2, iter, enumVars>>

\* A turn of the loop on null or on an object without next():
\* iter?.next?.() is undefined.
SequenceNoNext ==
  /\ pc = "loop"
  /\ iter \in {"IterNull", "IterNoNext"}
  /\ LoopTurn(ResUndefined)
  /\ UNCHANGED <<under, call, out2, iter, results, enumVars>>

\* The caller has its completion and is free to call again: nothing of the
\* call is kept.  (prev remembers the enum converter's call for the model.)
Finish ==
  /\ pc \in {"called", "again"}
  /\ pc' = "idle"
  /\ call' = NoCall
  /\ out' = NoOutcome
  /\ out2' = NoOutcome
  /\ prev' = IF under = "enum"
               THEN [def |-> TRUE, V |-> call.V, opts |-> call.opts, out |-> out]
               ELSE prev
  /\ iter' = "none"
  /\ array' = <<>>
  /\ results' = <<>>
  /\ convCalls' = <<>>
  /\ UNCHANGED <<under, values, E, made>>

Next ==
  \/ CallConvertToInt
  \/ ConvertAgain
  \/ CallDOMString
  \/ CreateEnumConverter
  \/ PushValue
  \/ CallEnumConverter
  \/ CallInterfaceConverter
  \/ CallSequenceConverter
  \/ SequenceNext
  \/ SequenceNoNext
  \/ Finish

Spec == Init /\ [][Next]_vars

(***************************************************************************)
(* The properties.  What they compare the converters with is written here  *)
(* on plain integers, apart from the converters' own arithmetic.           *)
(***************************************************************************)
IntCalled == under = "convertToInt" /\ pc = "called"
\* ToNumber(value) completed, and x of step 5 is:
Coerces == ToNumber(call.V).kind = "return"
XOfCall == LET c == ToNumber(call.V).val IN IF IsZero(c) THEN Fin(0) ELSE c

\* Integers: n / Scale truncated toward zero, and floor(n / Scale).
TruncInt(n) == IF n >= 0 THEN n \div Scale ELSE -((-n) \div Scale)
FloorInt(n) == IF n >= 0 THEN n \div Scale ELSE -(((-n) + Scale - 1) \div Scale)
LowerInt(b, signed) == IF signed THEN -(2 ^ (b - 1)) ELSE 0
UpperInt(b, signed) == IF signed THEN 2 ^ (b - 1) - 1 ELSE 2 ^ b - 1

\* The completion is the Number i, an integer (+0 for 0).
ReturnsInt(o, i) == o = Return(NumV(Fin(i * Scale)))
\* The completion is a Number equal (===) to the integer i.
ReturnsIntValue(o, i) ==
  /\ o.kind = "return"
  /\ o.val.t = "number"
  /\ StrictEq(NumOf(o.val), Fin(i * Scale))
ThrowsCode(o, code) == o.kind = "throw" /\ o.err.code = code

Contains(s, sub) ==
  \E i \in 1..(Len(s) - Len(sub) + 1) : SubSeq(s, i, i + Len(sub) - 1) = sub
EndsWith(s, sub) ==
  Len(s) >= Len(sub) /\ SubSeq(s, Len(s) - Len(sub) + 1, Len(s)) = sub

\* x truncated and reduced modulo 2^b to [0, 2^b - 1], then read as signed.
WrapInt(n, b, signed) ==
  LET m == TruncInt(n) % (2 ^ b)
  IN  IF signed /\ m >= 2 ^ (b - 1) THEN m - 2 ^ b ELSE m

\* C1: in wrap mode a finite non-zero x is truncated, reduced modulo
\* 2^bitLength to a non-negative value and, if signed and at least
\* 2^(bitLength-1), lowered by 2^bitLength; the result lies in
\* [lowerBound, upperBound].
C1_WrapsIntoRange ==
  (/\ IntCalled
   /\ Coerces
   /\ ~call.opts.enforceRange
   /\ ~call.opts.clamp \/ NumberIsNaN(XOfCall)
   /\ XOfCall.k = "fin"
   /\ XOfCall.n # 0)
  => LET w == WrapInt(XOfCall.n, call.bitLength, call.opts.signed)
     IN  /\ ReturnsInt(out, w)
         /\ LowerInt(call.bitLength, call.opts.signed) <= w
         /\ w <= UpperInt(call.bitLength, call.opts.signed)

\* The scaled integer c clamped into [lo, hi] (integers), x being the Number.
ClampInt(x, lo, hi) ==
  CASE x.k = "inf" -> hi * Scale
    [] x.k = "ninf" -> lo * Scale
    [] NumVal(x) < lo * Scale -> lo * Scale
    [] NumVal(x) > hi * Scale -> hi * Scale
    [] OTHER -> NumVal(x)

\* c / Scale rounded to the nearest integer, a half to the even neighbour.
RoundHalfEvenInt(c) ==
  LET f == FloorInt(c)
      twice == 2 * (c - f * Scale)
  IN  IF twice < Scale THEN f
      ELSE IF twice > Scale THEN f + 1
      ELSE IF f % 2 = 0 THEN f ELSE f + 1

\* C2: with clamp set, enforceRange unset and x not NaN, the result is x
\* saturated into [lowerBound, upperBound] and rounded to the nearest
\* integer, a half going to the even neighbour.
C2_ClampRoundsToNearest ==
  (/\ IntCalled
   /\ Coerces
   /\ call.opts.clamp
   /\ ~call.opts.enforceRange
   /\ ~NumberIsNaN(XOfCall))
  => ReturnsInt(out, RoundHalfEvenInt(ClampInt(XOfCall,
                                               LowerInt(call.bitLength, call.opts.signed),
                                               UpperInt(call.bitLength, call.opts.signed))))

\* C3: with enforceRange set and either value of clamp, NaN and the
\* infinities raise ERR_INVALID_ARG_VALUE; any other x is truncated toward
\* zero, raises ERR_INVALID_ARG_VALUE when the truncated value is outside
\* [lowerBound, upperBound] and is returned otherwise.  Nothing in the
\* outcome depends on clamp.
C3_EnforceRange ==
  (IntCalled /\ Coerces /\ call.opts.enforceRange)
  => IF XOfCall.k \in {"nan", "inf", "ninf"}
       THEN ThrowsCode(out, "ERR_INVALID_ARG_VALUE")
       ELSE LET t == TruncInt(XOfCall.n)
            IN  IF t < LowerInt(call.bitLength, call.opts.signed)
                   \/ t > UpperInt(call.bitLength, call.opts.signed)
                  THEN ThrowsCode(out, "ERR_INVALID_ARG_VALUE")
                  ELSE ReturnsIntValue(out, t)

\* C3's case: enforceRange and clamp both set, a fraction inside the range
\* returned truncated and not rounded.
C3_Witness ==
  /\ IntCalled
  /\ call.opts.enforceRange
  /\ call.opts.clamp
  /\ call.V = NumV(Fin(2 * Scale + (Scale \div 2) + 1))
  /\ ReturnsIntValue(out, 2)

OutOfRange ==
  \/ XOfCall.k \in {"nan", "inf", "ninf"}
  \/ TruncInt(XOfCall.n) < LowerInt(call.bitLength, call.opts.signed)
  \/ TruncInt(XOfCall.n) > UpperInt(call.bitLength, call.opts.signed)

\* C4 as stated: convertToInt throws only when enforceRange is set and the
\* coerced number is non-finite or out of range; with enforceRange unset it
\* returns a number for every input, NaN and the infinities giving 0.
C4_Original ==
  IntCalled
  => /\ out.kind = "throw" => (call.opts.enforceRange /\ Coerces /\ OutOfRange)
     /\ ~call.opts.enforceRange
          => /\ out.kind = "return"
             /\ out.val.t = "number"
             /\ (Coerces /\ XOfCall.k \in {"nan", "inf", "ninf"}) => ReturnsInt(out, 0)

\* C4, amended: ToNumber of a Symbol or a BigInt throws a TypeError, with
\* any options.  For an input ToNumber converts, convertToInt throws only
\* ERR_INVALID_ARG_VALUE and only when enforceRange is set and the number is
\* non-finite or out of range; with enforceRange unset it returns a finite
\* number: 0 for NaN, and for an infinity 0 in wrap mode and the bound on
\* its side under clamp.
C4_Amended ==
  IntCalled
  => IF type(call.V) \in {"Symbol", "BigInt"}
       THEN out = Throw(NativeTypeError)
       ELSE /\ Coerces
            /\ out.kind = "throw"
                 => /\ out.err.code = "ERR_INVALID_ARG_VALUE"
                    /\ call.opts.enforceRange
                    /\ OutOfRange
            /\ ~call.opts.enforceRange
                 => /\ out.kind = "return"
                    /\ out.val.t = "number"
                    /\ out.val.k = "fin"
                    /\ XOfCall.k = "nan" => ReturnsInt(out, 0)
                    /\ XOfCall.k = "inf"
                         => ReturnsInt(out, IF call.opts.clamp
                                              THEN UpperInt(call.bitLength, call.opts.signed)
                                              ELSE 0)
                    /\ XOfCall.k = "ninf"
                         => ReturnsInt(out, IF call.opts.clamp
                                              THEN LowerInt(call.bitLength, call.opts.signed)
                                              ELSE 0)

\* C4's case: a BigInt with enforceRange unset, and the TypeError it gets.
C4_Witness ==
  /\ IntCalled
  /\ ~call.opts.enforceRange
  /\ type(call.V) = "BigInt"
  /\ out.kind = "throw"

\* Another: +Infinity under clamp, which gives the upper bound and not 0.
C4_WitnessClamp ==
  /\ IntCalled
  /\ ~call.opts.enforceRange
  /\ call.opts.clamp
  /\ call.V = NumV(PosInf)
  /\ call.bitLength = 8
  /\ ~call.opts.signed
  /\ ReturnsInt(out, 255)

\* C5: convertToInt, given with the same options a value it returned,
\* returns that value again (it does not throw, and the Number it returns
\* is === the one it was given).
C5_Idempotent ==
  (under = "convertToInt" /\ pc = "again")
  => /\ out2.kind = "return"
     /\ out2.val.t = "number"
     /\ StrictEq(NumOf(out2.val), NumOf(out.val))

\* C5's case: a value that the first call changed went through the second.
C5_Witness ==
  /\ under = "convertToInt"
  /\ pc = "again"
  /\ call.V.t = "number"
  /\ ~StrictEq(NumOf(call.V), NumOf(out.val))
  /\ out2.kind = "return"

\* An iterator result with the done / value shape.
WellFormed(res) == res.t = "object" /\ res.done \in {"true", "false"} /\ res.hasValue

\* The options element i (from 0) is to be converted with: the caller's,
\* context replaced by "<context>[i]".
IndexedOptions(opts, i) ==
  [opts EXCEPT !.context =
     Some((IF opts.context.def THEN opts.context.s
           ELSE <<"u", "n", "d", "e", "f", "i", "n", "e", "d">>)
          \o <<"[", DigitChars[i + 1], "]">>)]

InSequence == under = "sequence" /\ iter = "Iterable"

\* C6: over results that are all well formed, the element converter is
\* called on v0, v1, ... in order, element i with the caller's options and
\* context "<context>[i]"; at the first result with done === true the
\* converter returns the list of what those calls returned (the empty list
\* when the first result is done), and next() is not called after it.
C6_SequenceInOrder ==
  (InSequence /\ \A i \in 1..Len(results) : WellFormed(results[i]))
  => LET yields == {i \in 1..Len(results) : results[i].done = "false"}
     IN  /\ \A i \in 1..(Len(results) - 1) : results[i].done = "false"
         /\ Len(convCalls) = Cardinality(yields)
         /\ \A i \in 1..Len(convCalls) :
              /\ convCalls[i].V = results[i].value
              /\ convCalls[i].opts = IndexedOptions(call.opts, i - 1)
              /\ convCalls[i].out = elementConverter(call.conv, results[i].value,
                                                     IndexedOptions(call.opts, i - 1))
         /\ (Len(results) > 0 /\ results[Len(results)].done = "true")
              => /\ pc = "called"
                 /\ out.kind = "return"
                 /\ Len(out.val) = Len(results) - 1
                 /\ \A i \in 1..Len(out.val) :
                      Return(out.val[i]) = elementConverter(call.conv, results[i].value,
                                                            IndexedOptions(call.opts, i - 1))

\* C6's cases: two elements converted with contexts ctx[0] and ctx[1] and
\* returned in order; an iterator done at its first step.
C6_Witness ==
  /\ InSequence
  /\ pc = "called"
  /\ call.opts.context = Ctx
  /\ call.conv = "DOMString"
  /\ results = <<ResYield(StrV(<<"c">>)), ResYield(StrV(<<"a">>)), ResDone>>
  /\ out = Return(<<StrV(<<"c">>), StrV(<<"a">>)>>)

C6_WitnessEmpty ==
  InSequence /\ pc = "called" /\ results = <<ResDone>> /\ out = Return(<<>>)

\* C7: a next() result that is not well formed (undefined, null, not an
\* object, an object without the done / value shape) ends the conversion
\* with the "can not be converted to sequence" error: it is the last result
\* taken, and it was not given to the element converter.
C7_IllFormedRejected ==
  InSequence
  => \A i \in 1..Len(results) :
       ~WellFormed(results[i])
         => /\ i = Len(results)
            /\ pc = "called"
            /\ out.kind = "throw"
            /\ EndsWith(out.err.msg, SequenceMessage)
            /\ Len(convCalls) < i

\* The labels createEnumConverter was given, whatever the caller did to
\* its array since.
FactoryValues == {values[i] : i \in 1..Cardinality(E)}

\* C8: the enum converter returns String(V) when it is one of the values
\* the factory was given, and otherwise raises ERR_INVALID_ARG_VALUE with a
\* message that holds String(V), quoted, and the enum's name; a call with
\* the V and options of the call before completes as that one did.
C8_EnumConverter ==
  (under = "enum" /\ pc = "called")
  => LET S == String(call.V)
     IN  /\ IF S \in FactoryValues
              THEN out = Return(StrV(S))
              ELSE /\ ThrowsCode(out, "ERR_INVALID_ARG_VALUE")
                   /\ Contains(out.err.msg, <<"'">> \o S \o <<"'">>)
                   /\ EndsWith(out.err.msg, <<" ">> \o EnumName \o <<".">>)
         /\ (prev.def /\ prev.V = call.V /\ prev.opts = call.opts) => prev.out = out

\* C8's case: a second call with the V and options of the first, made after
\* the caller pushed String(V) onto its array, and rejected as the first.
C8_Witness ==
  /\ under = "enum"
  /\ pc = "called"
  /\ prev.def
  /\ prev.V = call.V
  /\ prev.opts = call.opts
  /\ out.kind = "throw"
  /\ \E i \in 1..Len(values) : values[i] = String(call.V)

\* Another: a Number whose string is one of the labels.
C8_WitnessNumber ==
  /\ under = "enum"
  /\ pc = "called"
  /\ call.V = NumV(Fin(Scale + Scale \div 2))
  /\ out = Return(StrV(<<"1", ".", "5">>))

\* The error kind of a converter when the options give no code.
DefaultCode ==
  CASE under = "sequence" /\ (convCalls = <<>> \/ convCalls[Len(convCalls)].out.kind # "throw")
         -> "ERR_INVALID_ARG_TYPE"
    [] under = "interface" -> "ERR_INVALID_ARG_TYPE"
    [] OTHER -> "ERR_INVALID_ARG_VALUE"

CarriesCode == call.opts.code.def /\ call.opts.code.s # ""
\* The call ended with an error one of the converters made.
RaisedError == pc = "called" /\ out.kind = "throw" /\ out.err.code # "none"

\* C9 as stated: every converter's error carries the code of the caller's
\* options when they have one, and the converter's default kind otherwise.
C9_Original ==
  RaisedError
  => out.err.code = IF CarriesCode THEN call.opts.code.s ELSE DefaultCode

\* C9, amended: only the sequence converter's own "can not be converted to
\* sequence" error carries the caller's code (ERR_INVALID_ARG_TYPE when
\* there is none).  The errors of convertToInt, DOMString and the enum
\* converter are ERR_INVALID_ARG_VALUE and the interface converter's is
\* ERR_INVALID_ARG_TYPE, whatever code the options carry, also when they
\* convert an element of a sequence.
C9_Amended ==
  RaisedError
  => out.err.code = IF CarriesCode /\ EndsWith(out.err.msg, SequenceMessage)
                      THEN call.opts.code.s
                      ELSE DefaultCode

\* C9's case: the enum converter, given a code, raising its own kind.
C9_Witness ==
  /\ RaisedError
  /\ CarriesCode
  /\ under = "enum"
  /\ out.err.code = "ERR_INVALID_ARG_VALUE"

\* Another: the sequence converter's error with the caller's code.
C9_WitnessSequence ==
  /\ RaisedError
  /\ CarriesCode
  /\ under = "sequence"
  /\ out.err.code = CustomCode.s

\* C10: when the element converter raises an error on the element at index
\* k, that call is the last one made of it, next() has been called k + 1
\* times and is not called again, and the sequence converter has raised
\* that very error: what the element converter raises for the element and
\* the options with context "<context>[k]".
C10_ElementErrorPropagates ==
  InSequence
  => \A i \in 1..Len(convCalls) :
       convCalls[i].out.kind = "throw"
         => /\ i = Len(convCalls)
            /\ pc = "called"
            /\ out = convCalls[i].out
            /\ out = elementConverter(call.conv, convCalls[i].V,
                                      IndexedOptions(call.opts, i - 1))
            /\ Len(results) = i
            /\ Len(array) = i - 1

\* C10's case: the element at index 1 fails after the one at index 0 passed.
C10_Witness ==
  /\ InSequence
  /\ pc = "called"
  /\ Len(convCalls) = 2
  /\ convCalls[2].out.kind = "throw"
  /\ out.kind = "throw"
  /\ call.opts.context = Ctx
  /\ Contains(out.err.msg, <<"c", "t", "x", "[", "1", "]">>)

=============================================================================
